---- MODULE Spec2Model ----
(***************************************************************************)
(* Model of the animation registry (src/lib/animations/registry.ts) and of *)
(* the hover play manager (src/lib/utils/hover-play-manager.ts), and of    *)
(* the canvas engine (CanvasEngine).                                       *)
(***************************************************************************)
EXTENDS Integers, Sequences, FiniteSets, TLC

\* ------------------------------------------------------------------ bounds
\* getById calls observed in one run
MaxCalls == 3
\* loader invocations observed in one run
MaxLoads == 2
\* setMaxConcurrent arguments range over -1 .. MaxArg
MaxArg == 3
\* the engine's clock runs up to MaxTime milliseconds
MaxTime == 100
\* frame request ids the host is asked to run
MaxFrames == 2
\* canvases the pool creates in one run
MaxCanvases == 2
\* entries in a list handed to sort
MaxLen == 3
\* engines one gallery card creates in one run
MaxEngines == 1

\* ------------------------------------------------------------- value sets
\* animation ids handed to the registry
Ids == {"a", "b"}
\* (metadata, loader) pairs handed to register
RegisterInputs ==
    { [metadata |-> "meta1", loader |-> "ld1"],
      [metadata |-> "meta2", loader |-> "ld2"] }
\* module references a loader may resolve to
Modules == {"m1", "m2"}
\* entries.get(id) of an id that is not registered
NoEntry == [metadata |-> "undefined", loader |-> "undefined"]
NoModule == "noModule"
Null == "null"
Pending == "pending"
\* marks[id] of an id whose history is not kept
Unobserved == "unobserved"

VARIABLES
    \* AnimationRegistry
    entries,          \* Map id -> {metadata, loader}
    loadedCache,      \* Map id -> Animation
    loadingPromises,  \* Map id -> Promise (index into loads, 0 = no key)
    loads,            \* loader invocations with the promise chained on them
    calls,            \* getById calls, in call order
    resolved,         \* history: first module a getById(id) resolved to since clearCache
    marks,            \* history: what last happened to an id's cache entry
                      \* (kept in RegistryHistorySpec only)
    \* HoverPlayManager
    activeAnimations, \* Set<string>, in insertion order
    cleanupFunctions, \* Map id -> cleanup, in insertion order
    maxConcurrent,
    invoked,          \* cleanup callbacks the last operation invoked, in order
    ret,              \* what the last operation returned
    lastOp,           \* the last operation and its arguments
    hung,             \* the last operation never returns
    \* CanvasEngine
    engine,           \* the fields of one CanvasEngine
    frames,           \* the host's pending requestAnimationFrame requests
    moduleCalls,      \* module callbacks the last event invoked, in order
    threw,            \* the last event ended by throwing
    engineOp,         \* the last event and its argument
    history,          \* history: frames accepted since play(), destroy() done
    now,              \* performance.now(), and the timestamp of a frame
    \* CanvasPool
    pool,             \* the idle canvases, oldest first
    created,          \* canvases document.createElement has made for the pool
    context,          \* per canvas, the kind of context it has been given
    outstanding,      \* history: per canvas, acquirers that have not released it
    poolOp,           \* the last pool call, its canvas and what it did
    \* AnimationRegistry.sort
    animations,       \* the caller's list
    sortOptions,      \* {by, order} of the last sort call
    sorted,           \* what the last sort call returned
    \* AnimationCard
    cards             \* per gallery card: pointer, suspended starts, engines, load

regVars == <<entries, loadedCache, loadingPromises, loads, calls, resolved, marks>>
hoverVars == <<activeAnimations, cleanupFunctions, maxConcurrent, invoked, ret, lastOp, hung>>
engineVars == <<engine, frames, moduleCalls, threw, engineOp, history, now>>
poolVars == <<pool, created, context, outstanding, poolOp>>
sortVars == <<animations, sortOptions, sorted>>
cardVars == <<cards>>
vars == <<entries, loadedCache, loadingPromises, loads, calls, resolved, marks,
          activeAnimations, cleanupFunctions, maxConcurrent, invoked, ret, lastOp, hung,
          engine, frames, moduleCalls, threw, engineOp, history, now,
          pool, created, context, outstanding, poolOp,
          animations, sortOptions, sorted,
          cards>>

\* ================================================================ registry

\* The ids of the loader invocations that have not settled.
PendingLoads(id) ==
    { p \in 1..Len(loads) : loads[p].id = id /\ loads[p].state = Pending }

\* What the promise returned by a getById call has resolved to (Pending if it
\* has not): a call answered from the entries or the cache resolves to the
\* value it returned, the others to the value of the loading promise.
ResultIn(c, ls) ==
    IF c.promise = 0 THEN c.value
    ELSE IF ls[c.promise].state = Pending THEN Pending
    ELSE ls[c.promise].value

Result(c) == ResultIn(c, loads)

\* register(metadata, loader): entries.set(metadata.id, {metadata, loader})
\* (the history keeps the module that is cached for a re-registered id)
Register(id, in) ==
    /\ entries' = [entries EXCEPT ![id] = in]
    /\ marks' = IF /\ marks[id] # Unobserved
                   /\ entries[id] # NoEntry /\ loadedCache[id] # NoModule
                THEN [marks EXCEPT ![id] = loadedCache[id]] ELSE marks
    /\ UNCHANGED <<loadedCache, loadingPromises, loads, calls, resolved>>
    /\ UNCHANGED hoverVars
    /\ UNCHANGED engineVars
    /\ UNCHANGED poolVars
    /\ UNCHANGED sortVars /\ UNCHANGED cardVars

\* The branch of a getById that does not look for a load in flight.
TierNoDedup(id) ==
    IF entries[id] = NoEntry THEN "miss"
    ELSE IF loadedCache[id] # NoModule THEN "cached"
    ELSE "load"

\* The branch getById(id) takes.
Tier(id) ==
    IF entries[id] = NoEntry THEN "miss"
    ELSE IF loadedCache[id] # NoModule THEN "cached"
    ELSE IF loadingPromises[id] # 0 THEN "loading"
    ELSE "load"

\* getById(id)
GetById(id) ==
    /\ Len(calls) < MaxCalls
    /\ CASE Tier(id) = "miss" ->
              /\ calls' = Append(calls, [id |-> id, promise |-> 0, value |-> Null])
              /\ UNCHANGED <<loads, loadingPromises>>
         [] Tier(id) = "cached" ->
              /\ calls' = Append(calls, [id |-> id, promise |-> 0, value |-> loadedCache[id]])
              /\ UNCHANGED <<loads, loadingPromises>>
         [] Tier(id) = "loading" ->
              /\ calls' = Append(calls, [id |-> id, promise |-> loadingPromises[id],
                                         value |-> Pending])
              /\ UNCHANGED <<loads, loadingPromises>>
         [] Tier(id) = "load" ->
              /\ Len(loads) < MaxLoads
              /\ loads' = Append(loads, [id |-> id, loader |-> entries[id].loader,
                                         state |-> Pending, value |-> NoModule])
              /\ loadingPromises' = [loadingPromises EXCEPT ![id] = Len(loads) + 1]
              /\ calls' = Append(calls, [id |-> id, promise |-> Len(loads) + 1, value |-> Pending])
    /\ marks' = [marks EXCEPT ![id] = IF @ = "cleared" THEN NoModule ELSE @]
    /\ UNCHANGED <<entries, loadedCache, resolved>>
    /\ UNCHANGED hoverVars
    /\ UNCHANGED engineVars
    /\ UNCHANGED poolVars
    /\ UNCHANGED sortVars /\ UNCHANGED cardVars

\* The loader's promise fulfils with module m and the .then handler runs.
LoaderResolve(p, m) ==
    /\ p \in 1..Len(loads)
    /\ loads[p].state = Pending
    /\ loads' = [loads EXCEPT ![p].state = "fulfilled", ![p].value = m]
    /\ loadedCache' = [loadedCache EXCEPT ![loads[p].id] = m]
    /\ loadingPromises' = [loadingPromises EXCEPT ![loads[p].id] = 0]
    /\ resolved' = [resolved EXCEPT ![loads[p].id] =
                        IF @ = NoModule THEN m ELSE @]
    /\ UNCHANGED <<entries, calls, marks>>
    /\ UNCHANGED hoverVars
    /\ UNCHANGED engineVars
    /\ UNCHANGED poolVars
    /\ UNCHANGED sortVars /\ UNCHANGED cardVars

\* The loader's promise rejects and the .catch handler runs.
LoaderReject(p) ==
    /\ p \in 1..Len(loads)
    /\ loads[p].state = Pending
    /\ loads' = [loads EXCEPT ![p].state = "failed", ![p].value = Null]
    /\ loadingPromises' = [loadingPromises EXCEPT ![loads[p].id] = 0]
    /\ UNCHANGED <<entries, loadedCache, calls, resolved, marks>>
    /\ UNCHANGED hoverVars
    /\ UNCHANGED engineVars
    /\ UNCHANGED poolVars
    /\ UNCHANGED sortVars /\ UNCHANGED cardVars

\* clearCache()
ClearCache ==
    /\ loadedCache' = [id \in Ids |-> NoModule]
    /\ loadingPromises' = [id \in Ids |-> 0]
    /\ resolved' = [id \in Ids |-> NoModule]
    /\ marks' = [id \in Ids |-> IF marks[id] = Unobserved THEN Unobserved ELSE "cleared"]
    /\ UNCHANGED <<entries, loads, calls>>
    /\ UNCHANGED hoverVars
    /\ UNCHANGED engineVars
    /\ UNCHANGED poolVars
    /\ UNCHANGED sortVars /\ UNCHANGED cardVars

\* getCacheSize(), isCached(id), has(id), count()
getCacheSize == Cardinality({ id \in Ids : loadedCache[id] # NoModule })
isCached(id) == loadedCache[id] # NoModule
has(id) == entries[id] # NoEntry
count == Cardinality({ id \in Ids : entries[id] # NoEntry })

\* new AnimationRegistry()
RegistryFields ==
    /\ entries = [id \in Ids |-> NoEntry]
    /\ loadedCache = [id \in Ids |-> NoModule]
    /\ loadingPromises = [id \in Ids |-> 0]
    /\ loads = <<>>
    /\ calls = <<>>
    /\ resolved = [id \in Ids |-> NoModule]

RegistryInit == RegistryFields /\ marks = [id \in Ids |-> Unobserved]

RegistryNext ==
    \/ \E id \in Ids, in \in RegisterInputs : Register(id, in)
    \/ \E id \in Ids : GetById(id)
    \/ \E p \in 1..MaxLoads, m \in Modules : LoaderResolve(p, m)
    \/ \E p \in 1..MaxLoads : LoaderReject(p)
    \/ ClearCache

\* =========================================================== hover manager
\* ids handed to the hover manager: any string, the empty one included
HoverIds == {"", "a", "b", "c", "d"}
\* cleanup callbacks handed to register
Callbacks == {"cb1", "cb2"}
NoCleanup == "undefined"
\* arguments of setMaxConcurrent
Args == -1..MaxArg

\* JavaScript truthiness of a string
Truthy(s) == s # ""

Max(x, y) == IF x >= y THEN x ELSE y

\* activeAnimations.has(id)
isActive(id) == \E i \in 1..Len(activeAnimations) : activeAnimations[i] = id

\* activeAnimations.size
getActiveCount == Len(activeAnimations)

\* cleanupFunctions.get(id) on a map cs
CleanupOf(cs, id) ==
    IF \E i \in 1..Len(cs) : cs[i].id = id
    THEN cs[CHOOSE i \in 1..Len(cs) : cs[i].id = id].cleanup
    ELSE NoCleanup

Without(seq, id) == SelectSeq(seq, LAMBDA x : x # id)
WithoutKey(cs, id) == SelectSeq(cs, LAMBDA c : c.id # id)

\* An unregister that leaves the stored callback in the map.
UnregKeepsCleanup(st, id) ==
    LET cleanup == CleanupOf(st.cleanups, id) IN
    IF cleanup # NoCleanup
    THEN [st EXCEPT !.invoked = Append(@, [id |-> id, cleanup |-> cleanup]),
                    !.active = Without(@, id)]
    ELSE [st EXCEPT !.active = Without(@, id)]

\* unregister(animationId) applied to st = [active, cleanups, invoked, hung]
Unreg(st, id) ==
    LET cleanup == CleanupOf(st.cleanups, id) IN
    IF cleanup # NoCleanup
    THEN [st EXCEPT !.invoked = Append(@, [id |-> id, cleanup |-> cleanup]),
                    !.cleanups = WithoutKey(@, id),
                    !.active = Without(@, id)]
    ELSE [st EXCEPT !.active = Without(@, id)]

\* The manager's state at the start of an operation.
Now == [active |-> activeAnimations, cleanups |-> cleanupFunctions,
        invoked |-> <<>>, hung |-> FALSE]

\* The manager's state at the end of an operation.
Becomes(st) ==
    /\ activeAnimations' = st.active
    /\ cleanupFunctions' = st.cleanups
    /\ invoked' = st.invoked
    /\ hung' = st.hung

Op(name, id, cb, n) == [op |-> name, id |-> id, cb |-> cb, n |-> n]

\* if (size >= maxConcurrent) { oldestId = values().next().value; if (oldestId) unregister }
EvictOldest(st, cap) ==
    IF Len(st.active) >= cap
    THEN IF Truthy(Head(st.active)) THEN Unreg(st, Head(st.active)) ELSE st
    ELSE st

\* A register without the has(animationId) test.
RegisterAgain(id, cb) ==
    /\ ~hung
    /\ LET st == EvictOldest(Now, maxConcurrent) IN
         Becomes([st EXCEPT !.active = Append(Without(@, id), id),
                            !.cleanups = Append(WithoutKey(@, id), [id |-> id, cleanup |-> cb])])
    /\ ret' = "true"
    /\ lastOp' = Op("register", id, cb, 0)
    /\ UNCHANGED maxConcurrent
    /\ UNCHANGED regVars
    /\ UNCHANGED engineVars
    /\ UNCHANGED poolVars
    /\ UNCHANGED sortVars /\ UNCHANGED cardVars

\* register(animationId, cleanup)
HoverRegister(id, cb) ==
    /\ ~hung
    /\ IF isActive(id)
       THEN /\ Becomes(Now)
            /\ ret' = "false"
       ELSE /\ LET st == EvictOldest(Now, maxConcurrent) IN
                 Becomes([st EXCEPT !.active = Append(@, id),
                                    !.cleanups = Append(@, [id |-> id, cleanup |-> cb])])
            /\ ret' = "true"
    /\ lastOp' = Op("register", id, cb, 0)
    /\ UNCHANGED maxConcurrent
    /\ UNCHANGED regVars
    /\ UNCHANGED engineVars
    /\ UNCHANGED poolVars
    /\ UNCHANGED sortVars /\ UNCHANGED cardVars

\* unregister(animationId)
Unregister(id) ==
    /\ ~hung
    /\ Becomes(Unreg(Now, id))
    /\ ret' = "void"
    /\ lastOp' = Op("unregister", id, "", 0)
    /\ UNCHANGED maxConcurrent
    /\ UNCHANGED regVars
    /\ UNCHANGED engineVars
    /\ UNCHANGED poolVars
    /\ UNCHANGED sortVars /\ UNCHANGED cardVars

\* A stopAll that forgets activeAnimations.clear().
StopAllKeepsActive ==
    /\ ~hung
    /\ Becomes([Now EXCEPT !.invoked = cleanupFunctions, !.cleanups = <<>>])
    /\ ret' = "void"
    /\ lastOp' = Op("stopAll", "", "", 0)
    /\ UNCHANGED maxConcurrent
    /\ UNCHANGED regVars
    /\ UNCHANGED engineVars
    /\ UNCHANGED poolVars
    /\ UNCHANGED sortVars /\ UNCHANGED cardVars

\* stopAll()
StopAll ==
    /\ ~hung
    /\ Becomes([Now EXCEPT !.invoked = cleanupFunctions, !.active = <<>>, !.cleanups = <<>>])
    /\ ret' = "void"
    /\ lastOp' = Op("stopAll", "", "", 0)
    /\ UNCHANGED maxConcurrent
    /\ UNCHANGED regVars
    /\ UNCHANGED engineVars
    /\ UNCHANGED poolVars
    /\ UNCHANGED sortVars /\ UNCHANGED cardVars

\* while (size > maxConcurrent) { oldestId = values().next().value; if (oldestId) unregister }
\* An iteration whose oldestId is falsy changes nothing, so the loop never ends.
RECURSIVE EvictLoop(_, _)
EvictLoop(st, cap) ==
    IF Len(st.active) > cap
    THEN IF Truthy(Head(st.active))
         THEN EvictLoop(Unreg(st, Head(st.active)), cap)
         ELSE [st EXCEPT !.hung = TRUE]
    ELSE st

\* setMaxConcurrent(max)
SetMaxConcurrent(n) ==
    /\ ~hung
    /\ maxConcurrent' = Max(1, n)
    /\ Becomes(EvictLoop(Now, Max(1, n)))
    /\ ret' = "void"
    /\ lastOp' = Op("setMaxConcurrent", "", "", n)
    /\ UNCHANGED regVars
    /\ UNCHANGED engineVars
    /\ UNCHANGED poolVars
    /\ UNCHANGED sortVars /\ UNCHANGED cardVars

HoverInit ==
    /\ activeAnimations = <<>>
    /\ cleanupFunctions = <<>>
    /\ maxConcurrent = 3
    /\ invoked = <<>>
    /\ ret = "void"
    /\ lastOp = Op("new", "", "", 0)
    /\ hung = FALSE

HoverNext ==
    \/ \E id \in HoverIds, cb \in Callbacks : HoverRegister(id, cb)
    \/ \E id \in HoverIds : Unregister(id)
    \/ StopAll
    \/ \E n \in Args : SetMaxConcurrent(n)

\* ============================================================ canvas engine
\* animation modules handed to loadAnimation; anim1 defines cleanup, anim2 does not
Animations == {"anim1", "anim2"}
NoAnimation == "null"
HasCleanup(a) == a = "anim1"
\* NaN, which setSpeed's number parameter admits: a value no speed in
\* hundredths takes in this model
NaN == -999
\* speeds handed to setSpeed, in hundredths
SpeedInputs == {-100, 150, 500, NaN}
\* parameter objects handed to setParameters
\* (one key; 0 stands for a key the object does not have)
ParamInputs == { [size |-> v] : v \in {0, 1} }
\* widths the canvas box takes (getBoundingClientRect().width * devicePixelRatio)
Widths == {400, 800}
\* milliseconds between two events of the host
TimeSteps == {20, 40}
\* what a module callback may do in a frame: return, or throw from update or render
Faults == {"none", "update", "render"}

\* Math.min, Math.max and * of a time and a speed: NaN if an argument is NaN
MathMin(x, y) == IF x = NaN \/ y = NaN THEN NaN ELSE IF x <= y THEN x ELSE y
MathMax(x, y) == IF x = NaN \/ y = NaN THEN NaN ELSE IF x >= y THEN x ELSE y
Times(x, speed) == IF speed = NaN THEN NaN ELSE x * speed

\* detectLowEndDevice(): hardwareConcurrency (0 if absent), mobile user agent,
\* deviceMemory (0 if absent)
detectLowEndDevice(hardwareConcurrency, isMobile, deviceMemory) ==
    LET cores == IF hardwareConcurrency # 0 THEN hardwareConcurrency ELSE 4 IN
    IF cores < 4 THEN TRUE
    ELSE IF isMobile THEN TRUE
    ELSE IF deviceMemory # 0 /\ deviceMemory < 4 THEN TRUE
    ELSE FALSE

\* The engine with the host's pending frame requests, the module callbacks the
\* running operation has invoked so far, and whether it has thrown.
Running ==
    [e |-> engine, frames |-> frames, calls |-> <<>>, threw |-> FALSE]

\* The operation ended because the module's update or render threw.
ModuleThrew(w) ==
    /\ w.threw /\ w.calls # <<>>
    /\ w.calls[Len(w.calls)].fn \in {"update", "render"}

\* The event op ends in w. The history notes whether play() has started
\* playback and no frame has reached update since (firstAfterPlay), the
\* timestamp of the last frame that reached update (lastAccepted, 0 if none),
\* whether a destroy() has returned, and whether the module has thrown in a
\* frame ("stalled"), pause(), stop(), restart() or loadAnimation() has been
\* called since ("reset"), and play() after that ("no", also when the module
\* has not thrown). restart() stops first, so an engine playing after
\* restart() has been started by its play().
Finishes(w, op) ==
    /\ engine' = w.e
    /\ frames' = w.frames
    /\ moduleCalls' = w.calls
    /\ threw' = w.threw
    /\ engineOp' = op
    /\ history' =
         [firstAfterPlay |->
              IF w.e.isPlaying /\ (~engine.isPlaying \/ op.op = "restart") THEN TRUE
              ELSE IF op.op = "frame" /\ w.calls # <<>> THEN FALSE
              ELSE history.firstAfterPlay,
          lastAccepted |->
              IF op.op = "frame" /\ w.calls # <<>> THEN now ELSE history.lastAccepted,
          destroyed |-> history.destroyed \/ (op.op = "destroy" /\ ~w.threw),
          stalled |->
              IF op.op = "frame" /\ ModuleThrew(w) THEN "stalled"
              ELSE IF op.op \in {"pause", "stop", "restart", "loadAnimation"}
                   THEN (IF w.e.isPlaying \/ history.stalled = "no" THEN "no" ELSE "reset")
              ELSE IF op.op = "play" /\ history.stalled = "reset" THEN "no"
              ELSE history.stalled]

\* getContext() at performance.now() = t (defined when this.ctx is set)
getContext(e, t) ==
    [width |-> e.width,
     time |-> Times(t - e.startTime, e.speed),
     deltaTime |-> Times(e.deltaTime, e.speed),
     fps |-> e.fps,
     isPlaying |-> e.isPlaying,
     speed |-> e.speed,
     params |-> e.params]

\* this.animation.<fn>(this.getContext()): getContext throws when this.ctx is
\* null, before the module is called; fault says whether the module throws.
CallModule(w, fn, t, fault) ==
    IF w.threw THEN w
    ELSE IF ~w.e.ctx THEN [w EXCEPT !.threw = TRUE]
    ELSE [w EXCEPT !.calls = Append(@, [fn |-> fn, module |-> w.e.animation,
                                        context |-> getContext(w.e, t)]),
                   !.threw = (fault = fn)]

\* requestAnimationFrame(this.animationLoop): the id of the new request
NewFrameId(w) ==
    CHOOSE n \in 1..(Cardinality(w.frames) + 1) : \A f \in w.frames : f.id # n

\* A frame request made although the callback has thrown.
RequestFrameAnyway(w, t) ==
    [w EXCEPT !.frames = @ \cup {[id |-> NewFrameId(w), at |-> t]},
              !.e.animationFrameId = NewFrameId(w)]

\* this.animationFrameId = requestAnimationFrame(this.animationLoop)
RequestFrame(w, t) ==
    IF w.threw THEN w
    ELSE [w EXCEPT !.frames = @ \cup {[id |-> NewFrameId(w), at |-> t]},
                   !.e.animationFrameId = NewFrameId(w)]

\* A pause() that leaves the pending frame request alone.
PauseKeepsFrame(w) ==
    IF w.threw THEN w ELSE [w EXCEPT !.e.isPlaying = FALSE]

\* pause()
Pause(w) ==
    IF w.threw THEN w
    ELSE IF w.e.animationFrameId # 0
         THEN [w EXCEPT !.e.isPlaying = FALSE,
                        !.frames = { f \in @ : f.id # w.e.animationFrameId },
                        !.e.animationFrameId = 0]
         ELSE [w EXCEPT !.e.isPlaying = FALSE]

\* stop()
Stop(w) ==
    LET p == Pause(w) IN
    IF p.threw THEN p
    ELSE [p EXCEPT !.e.startTime = 0, !.e.lastTime = 0, !.e.deltaTime = 0]

\* A play() that tests for a pending frame request instead of the flag.
PlayWhenIdle(w, t) ==
    IF w.threw \/ (w.e.isPlaying /\ w.frames # {}) THEN w
    ELSE RequestFrame([w EXCEPT !.e.isPlaying = TRUE,
                                !.e.startTime = t,
                                !.e.lastTime = 0,
                                !.e.frameCount = 0,
                                !.e.fpsUpdateTime = t], t)

\* A play() without the isPlaying test.
PlayAgain(w, t) ==
    IF w.threw THEN w
    ELSE RequestFrame([w EXCEPT !.e.isPlaying = TRUE,
                                !.e.startTime = t,
                                !.e.lastTime = 0,
                                !.e.frameCount = 0,
                                !.e.fpsUpdateTime = t], t)

\* play() at performance.now() = t
Play(w, t) ==
    IF w.threw \/ w.e.isPlaying THEN w
    ELSE RequestFrame([w EXCEPT !.e.isPlaying = TRUE,
                                !.e.startTime = t,
                                !.e.lastTime = 0,
                                !.e.frameCount = 0,
                                !.e.fpsUpdateTime = t], t)

\* if (this.animation?.cleanup) this.animation.cleanup(this.getContext())
CleanupAnimation(w, t) ==
    IF w.threw THEN w
    ELSE IF w.e.animation # NoAnimation /\ HasCleanup(w.e.animation)
         THEN CallModule(w, "cleanup", t, "none")
         ELSE w

\* this.animation = animation
SetAnimation(w, a) ==
    IF w.threw THEN w ELSE [w EXCEPT !.e.animation = a]

\* A loadAnimation that does not stop playback first.
LoadAnimationNoStop(w, a, t) ==
    CallModule(SetAnimation(CleanupAnimation(w, t), a), "init", t, "none")

\* loadAnimation(animation)
LoadAnimation(w, a, t) ==
    CallModule(SetAnimation(CleanupAnimation(Stop(w), t), a), "init", t, "none")

\* restart()
Restart(w, t) ==
    LET s == Stop(w) IN
    IF s.e.animation # NoAnimation
    THEN Play(CallModule(s, "init", t, "none"), t)
    ELSE s

\* A destroy() that keeps the module and the drawing context.
DestroyKeepsModule(w, t) ==
    LET c == CleanupAnimation(Stop(w), t) IN
    IF c.threw THEN c ELSE [c EXCEPT !.e.observing = FALSE]

\* destroy()
Destroy(w, t) ==
    LET c == CleanupAnimation(Stop(w), t) IN
    IF c.threw THEN c
    ELSE [c EXCEPT !.e.observing = FALSE, !.e.animation = NoAnimation, !.e.ctx = FALSE]

\* Math.max(0.25, Math.min(2.0, speed)), in hundredths
ClampSpeed(s) == MathMax(25, MathMin(200, s))

\* { ...this.params, ...params }
MergeParams(old, new) ==
    [k \in DOMAIN old |-> IF new[k] # 0 THEN new[k] ELSE old[k]]

\* A resize that tears the module down before it re-initialises it.
ResizeWithCleanup(w, width, t) ==
    LET s == [w EXCEPT !.e.width = width] IN
    IF s.e.animation # NoAnimation
    THEN CallModule(CleanupAnimation(s, t), "init", t, "none") ELSE s

\* The ResizeObserver callback: setupCanvas(), then init of the active module
ResizeCallback(w, width, t) ==
    LET s == [w EXCEPT !.e.width = width] IN
    IF s.e.animation # NoAnimation THEN CallModule(s, "init", t, "none") ELSE s

\* A throttle test that never drops a frame.
NeverTooSoon(e, timestamp) == FALSE

\* elapsed < this.fpsThrottle, with fpsThrottle = 1000 / targetFPS
\* (fpsThrottle is the fraction num / den)
TooSoon(e, timestamp) ==
    /\ e.fpsThrottle.num > 0
    /\ (timestamp - e.lastFrameTime) * e.fpsThrottle.den < e.fpsThrottle.num

\* Math.round((frameCount * 1000) / elapsed)
RoundedFps(frameCount, elapsed) == (2 * frameCount * 1000 + elapsed) \div (2 * elapsed)

\* The accepted part of a frame: timing, then update and render
AcceptFrame(w, timestamp, fault) ==
    LET throttled == IF w.e.fpsThrottle.num > 0
                     THEN [w EXCEPT !.e.lastFrameTime = timestamp] ELSE w
        last == IF throttled.e.lastTime = 0 THEN timestamp ELSE throttled.e.lastTime
        timed == [throttled EXCEPT !.e.deltaTime = timestamp - last,
                                   !.e.lastTime = timestamp,
                                   !.e.frameCount = @ + 1]
        counted == IF timestamp - timed.e.fpsUpdateTime >= 1000
                   THEN [timed EXCEPT !.e.fps = RoundedFps(timed.e.frameCount,
                                                 timestamp - timed.e.fpsUpdateTime),
                                      !.e.frameCount = 0,
                                      !.e.fpsUpdateTime = timestamp]
                   ELSE timed
        \* const context = this.getContext(): one context for update and render
        updated == CallModule(counted, "update", timestamp, fault)
        rendered == IF updated.threw THEN updated
                    ELSE [updated EXCEPT
                            !.calls = Append(@, [fn |-> "render", module |-> updated.e.animation,
                                                 context |-> updated.calls[Len(updated.calls)].context]),
                            !.threw = (fault = "render")]
    IN RequestFrame(rendered, timestamp)

\* animationLoop(timestamp)
animationLoop(w, timestamp, fault) ==
    IF ~w.e.isPlaying \/ w.e.animation = NoAnimation THEN w
    ELSE IF TooSoon(w.e, timestamp) THEN RequestFrame(w, timestamp)
    ELSE AcceptFrame(w, timestamp, fault)

EngineOp(name, a, n) == [op |-> name, a |-> a, n |-> n]

Others == UNCHANGED regVars /\ UNCHANGED hoverVars /\ UNCHANGED poolVars /\ UNCHANGED sortVars /\ UNCHANGED cardVars

\* ---- the engine's operations, called from outside a module callback
EngLoadAnimation(a) ==
    /\ Finishes(LoadAnimation(Running, a, now), EngineOp("loadAnimation", a, 0))
    /\ UNCHANGED now /\ Others

EngPlay ==
    /\ Finishes(Play(Running, now), EngineOp("play", "", 0))
    /\ UNCHANGED now /\ Others

EngPause ==
    /\ Finishes(Pause(Running), EngineOp("pause", "", 0))
    /\ UNCHANGED now /\ Others

EngStop ==
    /\ Finishes(Stop(Running), EngineOp("stop", "", 0))
    /\ UNCHANGED now /\ Others

EngRestart ==
    /\ Finishes(Restart(Running, now), EngineOp("restart", "", 0))
    /\ UNCHANGED now /\ Others

EngDestroy ==
    /\ Finishes(Destroy(Running, now), EngineOp("destroy", "", 0))
    /\ UNCHANGED now /\ Others

EngSetSpeed(s) ==
    /\ Finishes([Running EXCEPT !.e.speed = ClampSpeed(s)], EngineOp("setSpeed", "", s))
    /\ UNCHANGED now /\ Others

EngSetParameters(p) ==
    /\ Finishes([Running EXCEPT !.e.params = MergeParams(@, p)], EngineOp("setParameters", "", 0))
    /\ UNCHANGED now /\ Others

\* getFPS(), getSpeed(), isAnimationPlaying()
getFPS == engine.fps
getSpeed == engine.speed
isAnimationPlaying == engine.isPlaying

\* The observed canvas box changes and the ResizeObserver callback runs.
Resize(width) ==
    /\ engine.observing
    /\ Finishes(ResizeCallback(Running, width, now), EngineOp("resize", "", width))
    /\ UNCHANGED now /\ Others

\* The host runs the pending frame request id with timestamp now.
\* (a request made at time t runs in a later frame)
Frame(id, fault) ==
    /\ \E f \in frames : f.id = id /\ f.at < now
    /\ Finishes(animationLoop([Running EXCEPT !.frames = { f \in @ : f.id # id }], now, fault), EngineOp("frame", "", 0))
    /\ UNCHANGED now /\ Others

\* Time passes.
Advance(d) ==
    /\ now + d <= MaxTime
    /\ now' = now + d
    /\ moduleCalls' = <<>>
    /\ threw' = FALSE
    /\ engineOp' = EngineOp("advance", "", d)
    /\ UNCHANGED <<engine, frames, history>>
    /\ Others

\* new CanvasEngine(canvas) that found a drawing context
EngineInit ==
    /\ \E cores \in {0, 2, 8}, mobile \in BOOLEAN, memory \in {0, 2, 8} :
         LET low == detectLowEndDevice(cores, mobile, memory) IN
         engine = [animation |-> NoAnimation, animationFrameId |-> 0, isPlaying |-> FALSE,
                   startTime |-> 0, lastTime |-> 0, deltaTime |-> 0, fps |-> 0,
                   frameCount |-> 0, fpsUpdateTime |-> 0, speed |-> 100,
                   params |-> [size |-> 0], observing |-> TRUE, ctx |-> TRUE,
                   isLowEndDevice |-> low,
                   targetFPS |-> IF low THEN 30 ELSE 60,
                   fpsThrottle |-> IF low THEN [num |-> 1000, den |-> 30]
                                  ELSE [num |-> 0, den |-> 1],
                   lastFrameTime |-> 0,
                   width |-> 800]
    /\ frames = {}
    /\ moduleCalls = <<>>
    /\ threw = FALSE
    /\ engineOp = EngineOp("new", "", 0)
    /\ history = [firstAfterPlay |-> FALSE, lastAccepted |-> 0, destroyed |-> FALSE,
                  stalled |-> "no"]
    /\ now = 20

EngineNext ==
    \/ \E a \in Animations : EngLoadAnimation(a)
    \/ EngPlay
    \/ EngPause
    \/ EngStop
    \/ EngRestart
    \/ EngDestroy
    \/ \E s \in SpeedInputs : EngSetSpeed(s)
    \/ \E p \in ParamInputs : EngSetParameters(p)
    \/ \E width \in Widths : Resize(width)
    \/ \E id \in 1..MaxFrames : Frame(id, "none")
    \/ \E d \in TimeSteps : Advance(d)

\* The engine with modules whose update or render may throw.
EngineFaultNext ==
    \/ \E a \in Animations : EngLoadAnimation(a)
    \/ EngPlay
    \/ EngPause
    \/ EngStop
    \/ EngRestart
    \/ EngDestroy
    \/ \E s \in SpeedInputs : EngSetSpeed(s)
    \/ \E p \in ParamInputs : EngSetParameters(p)
    \/ \E width \in Widths : Resize(width)
    \/ \E id \in 1..MaxFrames, fault \in Faults : Frame(id, fault)
    \/ \E d \in TimeSteps : Advance(d)

\* ============================================================= canvas pool
\* private maxSize = 10
maxSize == 10
\* the canvases created so far
Canvases == 1..created
\* context kinds a holder asks a canvas for
ContextKinds == {"2d", "webgl"}

PoolOp(name, canvas, did) == [op |-> name, canvas |-> canvas, did |-> did]

NotPool ==
    /\ UNCHANGED regVars /\ UNCHANGED hoverVars
    /\ UNCHANGED engineVars /\ UNCHANGED sortVars /\ UNCHANGED cardVars

\* acquire(width, height): this.pool.pop(), or a new canvas
\* (the history counts the caller as an acquirer of the canvas it is handed)
PoolAcquire ==
    /\ IF pool # <<>>
       THEN /\ pool' = SubSeq(pool, 1, Len(pool) - 1)
            /\ outstanding' = [outstanding EXCEPT ![pool[Len(pool)]] = @ + 1]
            /\ poolOp' = PoolOp("acquire", pool[Len(pool)], "pooled")
            /\ UNCHANGED <<created, context>>
       ELSE /\ created < MaxCanvases
            /\ created' = created + 1
            /\ context' = [context EXCEPT ![created + 1] = "none"]
            /\ outstanding' = [outstanding EXCEPT ![created + 1] = @ + 1]
            /\ poolOp' = PoolOp("acquire", created + 1, "created")
            /\ UNCHANGED pool
    /\ NotPool

\* canvas.getContext('2d') inside release: the canvas's 2d context, made on
\* first use; null on a canvas that has a context of another kind
Has2d(canvas) == context[canvas] # "webgl"

\* release(canvas), by whoever has a reference to the canvas
\* (the history takes one acquirer off the canvas, if it has one)
PoolRelease(canvas) ==
    /\ canvas \in Canvases
    /\ IF Len(pool) < maxSize
       THEN /\ pool' = Append(pool, canvas)
            /\ context' = [context EXCEPT ![canvas] = IF Has2d(canvas) THEN "2d" ELSE @]
            /\ poolOp' = PoolOp("release", canvas,
                                IF Has2d(canvas) THEN "cleared" ELSE "pooled")
       ELSE /\ poolOp' = PoolOp("release", canvas, "dropped")
            /\ UNCHANGED <<pool, context>>
    /\ outstanding' = [outstanding EXCEPT ![canvas] = IF @ > 0 THEN @ - 1 ELSE 0]
    /\ UNCHANGED created
    /\ NotPool

\* clear()
PoolClear ==
    /\ pool' = <<>>
    /\ poolOp' = PoolOp("clear", 0, "cleared")
    /\ UNCHANGED <<created, context, outstanding>>
    /\ NotPool

\* A holder of the canvas gives it a context: canvas.getContext(kind) on a
\* canvas that has none yet.
GetContext(canvas, kind) ==
    /\ canvas \in Canvases
    /\ outstanding[canvas] > 0
    /\ context[canvas] = "none"
    /\ context' = [context EXCEPT ![canvas] = kind]
    /\ poolOp' = PoolOp("getContext", canvas, kind)
    /\ UNCHANGED <<pool, created, outstanding>>
    /\ NotPool

\* export const canvasPool = new CanvasPool()
PoolInit ==
    /\ pool = <<>>
    /\ created = 0
    /\ context = [c \in 1..MaxCanvases |-> "none"]
    /\ outstanding = [c \in 1..MaxCanvases |-> 0]
    /\ poolOp = PoolOp("new", 0, "")

PoolNext ==
    \/ PoolAcquire
    \/ \E canvas \in 1..MaxCanvases : PoolRelease(canvas)
    \/ PoolClear
    \/ \E canvas \in 1..MaxCanvases, kind \in ContextKinds : GetContext(canvas, kind)

\* =========================================================== registry sort
Difficulties == {"easy", "medium", "hard"}
\* metadata of distinct animations: names 1 .. MaxLen stand for names in
\* localeCompare order
Metadata == [name : 1..MaxLen, difficulty : Difficulties]
\* the lists a caller hands to sort: no animation twice
Lists ==
    { l \in UNION { [1..n -> Metadata] : n \in 0..MaxLen } :
        \A i, j \in DOMAIN l : i # j => l[i].name # l[j].name }
SortBy == {"name", "difficulty"}
SortOrder == {"asc", "desc"}

\* A difficulty order that follows the alphabet.
difficultyAlphabetical == [easy |-> 0, hard |-> 1, medium |-> 2]

\* const difficultyOrder = { easy: 0, medium: 1, hard: 2 }
difficultyOrder == [easy |-> 0, medium |-> 1, hard |-> 2]

\* The comparator handed to Array.prototype.sort
Comparison(a, b, by, order) ==
    LET comparison ==
            IF by = "name" THEN a.name - b.name
            ELSE difficultyOrder[a.difficulty] - difficultyOrder[b.difficulty]
    IN IF order = "asc" THEN comparison ELSE 0 - comparison

\* Array.prototype.sort is stable: an element goes behind every element the
\* comparator does not put after it.
InsertSorted(x, l, by, order) ==
    LET after == { i \in 1..Len(l) : Comparison(l[i], x, by, order) > 0 }
        at == IF after = {} THEN Len(l) + 1
              ELSE CHOOSE i \in after : \A j \in after : i <= j
    IN SubSeq(l, 1, at - 1) \o <<x>> \o SubSeq(l, at, Len(l))

RECURSIVE SortCopy(_, _, _)
SortCopy(l, by, order) ==
    IF l = <<>> THEN <<>>
    ELSE InsertSorted(l[Len(l)], SortCopy(SubSeq(l, 1, Len(l) - 1), by, order), by, order)

NotSort ==
    /\ UNCHANGED regVars /\ UNCHANGED hoverVars
    /\ UNCHANGED engineVars /\ UNCHANGED poolVars /\ UNCHANGED cardVars

\* sort(animations, {by, order}): sorts a copy, const sorted = [...animations]
Sort(by, order) ==
    /\ sorted' = SortCopy(animations, by, order)
    /\ sortOptions' = [by |-> by, order |-> order]
    /\ UNCHANGED animations
    /\ NotSort

SortInit ==
    /\ animations = <<>>
    /\ sortOptions = [by |-> "", order |-> ""]
    /\ sorted = <<>>

\* The caller has a list of metadata (from getAll() or filter()).
SortListInit ==
    /\ animations \in Lists
    /\ sortOptions = [by |-> "", order |-> ""]
    /\ sorted = <<>>

SortNext ==
    \E by \in SortBy, order \in SortOrder : Sort(by, order)

\* =========================================================== gallery cards
\* the animation ids of the gallery's cards (one card per id)
CardIds == {"a", "b", "c", "d"}

\* The cleanup callback a card hands to register: it stops the engine in
\* engineRef.current, if there is one, and clears the reference.
CardCleanup(cs, id) ==
    IF cs[id].ref
    THEN [cs EXCEPT ![id].ref = FALSE, ![id].playing = @ - 1]
    ELSE cs

\* The cards after the manager has invoked the cleanups inv, in order.
RECURSIVE CleanedUp(_, _)
CleanedUp(cs, inv) ==
    IF inv = <<>> THEN cs
    ELSE CleanedUp(CardCleanup(cs, Head(inv).id), Tail(inv))

\* The part of startAnimation after the await, with a module in hand:
\* engineRef.current = new CanvasEngine(canvas); loadAnimation; play
StartEngine(cs, id) ==
    [cs EXCEPT ![id].ref = TRUE, ![id].playing = @ + 1]

RECURSIVE StartEngines(_, _, _)
StartEngines(cs, id, n) ==
    IF n = 0 THEN cs ELSE StartEngines(StartEngine(cs, id), id, n - 1)

\* The fields of the hover manager after an operation of a card.
ManagerBecomes(st, r, op) ==
    /\ Becomes(st)
    /\ ret' = r
    /\ lastOp' = op
    /\ UNCHANGED maxConcurrent

NotCard ==
    /\ UNCHANGED regVars /\ UNCHANGED engineVars
    /\ UNCHANGED poolVars /\ UNCHANGED sortVars

\* handleMouseEnter: the start is delayed by a 200 ms timer
MouseEnter(id) ==
    /\ cards[id].pointer = "out"
    /\ cards' = [cards EXCEPT ![id].pointer = "timer"]
    /\ UNCHANGED hoverVars /\ NotCard

\* The timer fires and startAnimation runs up to its await. A module that is
\* cached resolves the await before any other event, one that is not leaves
\* the call suspended on the load.
TimerFires(id) ==
    /\ cards[id].pointer = "timer"
    /\ cards[id].playing + cards[id].awaiting < MaxEngines
    /\ IF isActive(id)
       THEN /\ ManagerBecomes(Now, "false", Op("register", id, "cb1", 0))
            /\ cards' = [cards EXCEPT ![id].pointer = "in"]
       ELSE LET ev == EvictOldest(Now, maxConcurrent)
                st == [ev EXCEPT !.active = Append(@, id),
                                 !.cleanups = Append(@, [id |-> id, cleanup |-> "cb1"])]
                cs == CleanedUp([cards EXCEPT ![id].pointer = "in"], st.invoked)
            IN  /\ ManagerBecomes(st, "true", Op("register", id, "cb1", 0))
                /\ cards' = IF cs[id].load = "cached" THEN StartEngine(cs, id)
                            ELSE [cs EXCEPT ![id].load = "loading",
                                            ![id].awaiting = @ + 1]
    /\ NotCard

\* handleMouseLeave: clears the timer, then stopAnimation unregisters the id
MouseLeave(id) ==
    /\ cards[id].pointer # "out"
    /\ LET st == Unreg(Now, id) IN
         /\ ManagerBecomes(st, "void", Op("unregister", id, "", 0))
         /\ cards' = CleanedUp([cards EXCEPT ![id].pointer = "out"], st.invoked)
    /\ NotCard

\* The load of the id's module fulfils: the registry caches it and every
\* suspended startAnimation of the card resumes.
LoadFulfils(id) ==
    /\ cards[id].load = "loading"
    /\ cards' = StartEngines([cards EXCEPT ![id].load = "cached", ![id].awaiting = 0],
                             id, cards[id].awaiting)
    /\ UNCHANGED hoverVars /\ NotCard

\* The load rejects: every suspended startAnimation of the card resumes in
\* its catch block, which unregisters the id.
LoadRejects(id) ==
    /\ cards[id].load = "loading"
    /\ LET st == Unreg(Now, id) IN
         /\ ManagerBecomes(st, "void", Op("unregister", id, "", 0))
         /\ cards' = CleanedUp([cards EXCEPT ![id].load = "none", ![id].awaiting = 0],
                               st.invoked)
    /\ NotCard

\* The cards of a gallery showing ids, before the pointer has been over any.
Mounted(ids) ==
    [id \in ids |->
        [pointer |-> "out", awaiting |-> 0, ref |-> FALSE,
         playing |-> 0, load |-> "none"]]

\* No gallery is mounted.
CardInit == cards = Mounted({})

CardNext ==
    \/ \E id \in DOMAIN cards : MouseEnter(id)
    \/ \E id \in DOMAIN cards : TimerFires(id)
    \/ \E id \in DOMAIN cards : MouseLeave(id)
    \/ \E id \in DOMAIN cards : LoadFulfils(id)
    \/ \E id \in DOMAIN cards : LoadRejects(id)

\* ========================================================== specifications
Init == RegistryInit /\ HoverInit /\ EngineInit /\ PoolInit /\ SortInit /\ CardInit

Next == RegistryNext \/ HoverNext \/ EngineNext \/ PoolNext \/ SortNext \/ CardNext

Spec == Init /\ [][Next]_vars

RegistrySpec == Init /\ [][RegistryNext]_vars

HoverSpec == Init /\ [][HoverNext]_vars

EngineSpec == Init /\ [][EngineNext]_vars

PoolSpec == Init /\ [][PoolNext]_vars

SortCallInit ==
    RegistryInit /\ HoverInit /\ EngineInit /\ PoolInit /\ SortListInit /\ CardInit

SortSpec == SortCallInit /\ [][SortNext]_vars

EngineFaultSpec == Init /\ [][EngineFaultNext]_vars

\* The gallery mounted with one card per id of CardIds.
GalleryInit ==
    /\ RegistryInit /\ HoverInit /\ EngineInit /\ PoolInit /\ SortInit
    /\ cards = Mounted(CardIds)

CardSpec == GalleryInit /\ [][CardNext]_vars

\* The registry with the history of clearCache and re-registration kept.
RegistryHistoryInit ==
    /\ RegistryFields /\ marks = [id \in Ids |-> NoModule]
    /\ HoverInit /\ EngineInit /\ PoolInit /\ SortInit /\ CardInit

RegistryHistorySpec == RegistryHistoryInit /\ [][RegistryNext]_vars

\* ================================================================== claims

\* The getById call a step makes for id, if it makes one.
CallsGetById(id) ==
    /\ Len(calls') = Len(calls) + 1
    /\ calls'[Len(calls')].id = id

\* The getById calls that were handed the promise of load p.
Awaiting(p) == { c \in 1..Len(calls) : calls[c].promise = p }

\* C1: single flight. While load p of id is in flight (it is the id's
\* loadingPromises entry and its only unsettled loader invocation), every
\* getById(id) invokes no loader and is handed p's promise; a getById(id) of a
\* registered id that is neither cached nor in flight invokes the loader
\* exactly once; and when p's loader resolves with m, every call awaiting p
\* resolves to that same m.
C1_SingleFlight ==
    [][\A id \in Ids :
         /\ \A p \in 1..Len(loads) :
              /\ (CallsGetById(id) /\ loadingPromises[id] = p /\ PendingLoads(id) = {p})
                   => /\ loads' = loads
                      /\ calls'[Len(calls')].promise = p
              /\ (loads'[p].state = "fulfilled" /\ loadingPromises[id] = p
                    /\ PendingLoads(id) = {p})
                   => /\ loads'[p].value \in Modules
                      /\ \A c \in Awaiting(p) :
                            ResultIn(calls'[c], loads') = loads'[p].value
         /\ (CallsGetById(id) /\ has(id) /\ ~isCached(id) /\ PendingLoads(id) = {})
              => /\ Len(loads') = Len(loads) + 1
                 /\ loads'[Len(loads')].id = id
                 /\ calls'[Len(calls')].promise = Len(loads')
      ]_vars

\* C1 witness: two getById calls share one resolved load, the only loader
\* invocation of their id.
C1_Witness ==
    \E p \in 1..Len(loads) :
        /\ loads[p].state = "fulfilled"
        /\ Cardinality(Awaiting(p)) >= 2
        /\ \A c \in Awaiting(p) : Result(calls[c]) = loads[p].value
        /\ Cardinality({ q \in 1..Len(loads) : loads[q].id = loads[p].id }) = 1

\* C2: at most one loader invocation per id is unsettled at a time.
C2_AtMostOneInFlight ==
    \A id \in Ids : Cardinality(PendingLoads(id)) <= 1

\* C3: cache idempotence. Once a getById(id) has resolved to module m and
\* clearCache has not been called since, a getById(id) invokes no loader and
\* resolves to m.
C3_CacheIdempotence ==
    [][\A id \in Ids :
         (resolved[id] # NoModule /\ CallsGetById(id))
            => /\ loads' = loads
               /\ ResultIn(calls'[Len(calls')], loads') = resolved[id]
      ]_vars

\* C4: a failed load does not poison the registry. When the loader of load p
\* rejects, every call awaiting p resolves to null, the cache is left as it
\* was and holds nothing for the id, the id's loadingPromises entry is gone,
\* and the next getById(id) invokes the loader again.
C4_FailedLoadRetry ==
    [][\A p \in 1..Len(loads) :
         (loads[p].state = Pending /\ loads'[p].state = "failed")
            => /\ \A c \in Awaiting(p) : ResultIn(calls'[c], loads') = Null
               /\ loadedCache' = loadedCache
               /\ ~isCached(loads[p].id)'
               /\ loadingPromises'[loads[p].id] = 0
               /\ Tier(loads[p].id)' = "load"
      ]_vars

\* The cleanup callbacks of ids, in order, as the map cs stores them.
CleanupsOf(cs, ids) ==
    [i \in 1..Len(ids) |-> [id |-> ids[i], cleanup |-> CleanupOf(cs, ids[i])]]

\* C5: after any sequence of register, unregister, stopAll and
\* setMaxConcurrent calls that have returned, getActiveCount() does not exceed
\* the configured maximum.
C5_ConcurrencyBound ==
    ~hung => getActiveCount <= maxConcurrent

\* C6: FIFO eviction. register of an id that is not active returns true; made
\* when the active count is at the cap, it evicts exactly the oldest active
\* id, invokes that id's cleanup once, admits the new id last and leaves the
\* count at the cap.
C6_FifoEviction ==
    [][(lastOp'.op = "register" /\ ~isActive(lastOp'.id))
          => /\ ret' = "true"
             /\ getActiveCount = maxConcurrent
                  => /\ activeAnimations' = Append(Tail(activeAnimations), lastOp'.id)
                     /\ invoked' = CleanupsOf(cleanupFunctions, <<Head(activeAnimations)>>)
                     /\ getActiveCount' = maxConcurrent'
      ]_vars

\* C7: exactly-once cleanup. Every operation invokes the stored cleanup of
\* each id it removes from the active set exactly once and no other cleanup;
\* a successful register stores the callback it was given; unregister of an
\* id that is not active invokes nothing and changes nothing.
C7_ExactlyOnceCleanup ==
    [][LET gone == { id \in HoverIds : isActive(id) /\ ~isActive(id)' } IN
         /\ Len(invoked') = Cardinality(gone)
         /\ \A id \in gone :
               \E i \in 1..Len(invoked') :
                   invoked'[i] = [id |-> id, cleanup |-> CleanupOf(cleanupFunctions, id)]
         /\ \A id \in HoverIds :
               IF isActive(id)' THEN CleanupOf(cleanupFunctions', id) \in Callbacks
               ELSE CleanupOf(cleanupFunctions', id) = NoCleanup
         /\ (lastOp'.op = "register" /\ ret' = "true")
               => CleanupOf(cleanupFunctions', lastOp'.id) = lastOp'.cb
         /\ (lastOp'.op = "unregister" /\ ~isActive(lastOp'.id))
               => /\ invoked' = <<>>
                  /\ UNCHANGED <<activeAnimations, cleanupFunctions, maxConcurrent>>
      ]_vars

\* C7 witness: an unregister has removed an active id and invoked its cleanup.
C7_Witness ==
    /\ lastOp.op = "unregister"
    /\ Len(invoked) = 1
    /\ invoked[1].id = lastOp.id
    /\ ~isActive(lastOp.id)
    /\ getActiveCount >= 1

\* C8: duplicate registration is a no-op. register of an active id returns
\* false, invokes no cleanup and leaves the active set, its order, the stored
\* cleanups and the cap unchanged.
C8_DuplicateRegisterNoOp ==
    [][(lastOp'.op = "register" /\ isActive(lastOp'.id))
          => /\ ret' = "false"
             /\ invoked' = <<>>
             /\ UNCHANGED <<activeAnimations, cleanupFunctions, maxConcurrent>>
      ]_vars

\* C8 witness: at the cap, a register of an active id with another callback
\* was rejected and the original callback is still stored.
C8_Witness ==
    /\ lastOp.op = "register"
    /\ ret = "false"
    /\ getActiveCount = maxConcurrent
    /\ isActive(lastOp.id)
    /\ CleanupOf(cleanupFunctions, lastOp.id) # lastOp.cb

\* C9: setMaxConcurrent(n) sets the cap to max(1, n) and returns; when the
\* active count exceeds the cap it evicts the oldest ids, invoking the cleanup
\* of each once, oldest first, until the count equals the cap, and the most
\* recently registered ids survive in order; otherwise nothing is evicted.
C9_SetMaxConcurrent ==
    [][lastOp'.op = "setMaxConcurrent"
          => LET cap == Max(1, lastOp'.n)
                 k == getActiveCount
             IN  /\ maxConcurrent' = cap
                 /\ ~hung'
                 /\ IF k > cap
                    THEN /\ activeAnimations' = SubSeq(activeAnimations, k - cap + 1, k)
                         /\ invoked' = CleanupsOf(cleanupFunctions,
                                                  SubSeq(activeAnimations, 1, k - cap))
                         /\ getActiveCount' = cap
                    ELSE /\ invoked' = <<>>
                         /\ UNCHANGED <<activeAnimations, cleanupFunctions>>
      ]_vars

\* C10: stopAll() invokes the cleanup of every active registration exactly
\* once and leaves the manager empty, so that no id is active and a later
\* register of any id returns true.
C10_StopAll ==
    [][/\ lastOp'.op = "stopAll"
          => /\ invoked' = CleanupsOf(cleanupFunctions, activeAnimations)
             /\ getActiveCount' = 0
             /\ cleanupFunctions' = <<>>
             /\ \A id \in HoverIds : ~isActive(id)'
       /\ (lastOp'.op = "register" /\ ~isActive(lastOp'.id)) => ret' = "true"
      ]_vars

\* C10 witness: a stopAll has invoked the cleanups of two registrations.
C10_Witness ==
    /\ lastOp.op = "stopAll"
    /\ Len(invoked) >= 2
    /\ getActiveCount = 0


\* ---- canvas engine
\* The step is the host running a frame callback.
FrameTick == engineOp'.op = "frame"

\* A tick arrives less than 1000/30 ms after the last tick that reached the
\* module, on an engine classified low-end.
Throttled ==
    /\ engine.isLowEndDevice
    /\ history.lastAccepted # 0
    /\ (now - history.lastAccepted) * 30 < 1000

\* A tick is dropped: engine paused, no active module, or throttled.
DroppedTick == ~engine.isPlaying \/ engine.animation = NoAnimation \/ Throttled

\* The step called update once and then render once on module m, one context.
UpdateThenRender(m) ==
    /\ Len(moduleCalls') = 2
    /\ moduleCalls'[1].fn = "update" /\ moduleCalls'[1].module = m
    /\ moduleCalls'[2].fn = "render" /\ moduleCalls'[2].module = m
    /\ moduleCalls'[1].context = moduleCalls'[2].context

\* C11: every frame tick the engine accepts calls the active module's update
\* exactly once and then its render exactly once with the same context; a
\* dropped tick (paused, no active module, throttled) calls neither.
C11_UpdateBeforeRender ==
    [][FrameTick =>
         IF DroppedTick THEN moduleCalls' = <<>>
         ELSE UpdateThenRender(engine.animation)]_vars

\* The step called neither update nor render.
NoUpdateOrRender ==
    \A i \in 1..Len(moduleCalls') : moduleCalls'[i].fn \notin {"update", "render"}

\* C12: pause() leaves the engine not playing with no frame callback pending,
\* invokes no module callback and keeps the active module; on a paused
\* engine it changes nothing; while the engine is not playing no step calls
\* update or render.
C12_PauseImmediate ==
    [][/\ engineOp'.op = "pause" =>
            /\ ~engine'.isPlaying /\ frames' = {}
            /\ moduleCalls' = <<>> /\ ~threw'
            /\ engine'.animation = engine.animation
            /\ (~engine.isPlaying => engine' = engine /\ frames' = frames)
       /\ ~engine.isPlaying => NoUpdateOrRender]_vars

\* pause() has cancelled the frame callback that play() had scheduled
C12_Witness ==
    /\ engineOp.op = "pause" /\ history.firstAfterPlay
    /\ engine.ctx /\ engine.animation # NoAnimation
    /\ ~engine.isPlaying /\ frames = {}

\* C13: at most one frame callback is pending, none while the engine is not
\* playing, and play() on a playing engine changes nothing.
C13_PlayIdempotent ==
    [][/\ Cardinality(frames') <= 1
       /\ ~engine'.isPlaying => frames' = {}
       /\ engineOp'.op = "play" /\ engine.isPlaying =>
            engine' = engine /\ frames' = frames /\ moduleCalls' = <<>>]_vars

\* play() on an engine that was playing and had already run a frame
C13_Witness ==
    /\ engineOp.op = "play" /\ engine.isPlaying /\ ~history.firstAfterPlay
    /\ engine.ctx /\ engine.animation # NoAnimation
    /\ Cardinality(frames) = 1

\* C14: the first tick that reaches the module after play() has started
\* playback passes deltaTime 0 to update and render; every later one passes
\* (its timestamp - the previous such tick's timestamp) * speed.
C14_FirstFrameDelta ==
    [][FrameTick =>
         \A i \in 1..Len(moduleCalls') :
             moduleCalls'[i].context.deltaTime =
                 IF history.firstAfterPlay THEN 0
                 ELSE Times(now - history.lastAccepted, engine.speed)]_vars

\* The host runs the engine's frame callback n times, first at timestamp t and
\* then every gap ms: the number of ticks that called update and render, and
\* the number that re-armed the callback.
RECURSIVE Drive(_, _, _, _, _)
Drive(w, t, gap, n, acc) ==
    IF n = 0 THEN acc
    ELSE LET r == animationLoop([w EXCEPT !.frames = {}, !.calls = <<>>], t, "none") IN
         Drive(r, t + gap, gap, n - 1,
               [pairs |-> acc.pairs + (IF Len(r.calls) = 2 THEN 1 ELSE 0),
                rearmed |-> acc.rearmed + (IF r.frames # {} THEN 1 ELSE 0)])

\* The step left exactly one frame callback pending, requested in this tick.
Rearmed ==
    /\ Cardinality(frames') = 1
    /\ \A f \in frames' : f.at = now /\ f.id = engine'.animationFrameId

\* C15: on a low-end engine a tick less than 1000/30 ms after the last
\* accepted one calls neither update nor render and re-arms the callback, so
\* consecutive accepted ticks are at least 1000/30 ms apart, and 10 ticks 8 ms
\* apart give fewer than 10 update/render pairs and 10 re-arms; on any other
\* engine a tick of a playing engine with a module is never dropped.
C15_LowEndThrottle ==
    [][/\ FrameTick /\ engine.isPlaying /\ engine.animation # NoAnimation /\ Throttled =>
            moduleCalls' = <<>> /\ ~threw' /\ Rearmed
       /\ FrameTick /\ engine.isLowEndDevice /\ moduleCalls' # <<>>
            /\ history.lastAccepted # 0 =>
            (now - history.lastAccepted) * 30 >= 1000
       /\ engine.isLowEndDevice /\ engine.ctx /\ engine.isPlaying
            /\ engine.animation # NoAnimation =>
            LET d == Drive(Running, now + 8, 8, 10, [pairs |-> 0, rearmed |-> 0]) IN
            d.pairs < 10 /\ d.rearmed = 10
       /\ FrameTick /\ ~engine.isLowEndDevice /\ engine.isPlaying
            /\ engine.animation # NoAnimation =>
            ~(moduleCalls' = <<>> /\ ~threw')]_vars

\* a low-end engine has dropped a tick 20 ms after an accepted one and re-armed
C15_Witness ==
    /\ engineOp.op = "frame" /\ engine.isLowEndDevice /\ engine.isPlaying
    /\ moduleCalls = <<>> /\ ~threw /\ engine.ctx
    /\ history.lastAccepted # 0 /\ now - history.lastAccepted = 20
    /\ \E f \in frames : f.at = now

\* The callbacks the step invoked, as <<callback, module>> pairs in order.
Invoked == [i \in 1..Len(moduleCalls') |-> <<moduleCalls'[i].fn, moduleCalls'[i].module>>]

\* Every context the step passed showed the engine stopped.
CalledWhileStopped ==
    \A i \in 1..Len(moduleCalls') : ~moduleCalls'[i].context.isPlaying

\* cleanup of module m, if m is a module that defines cleanup
CleanupCall(m) ==
    IF m # NoAnimation /\ HasCleanup(m) THEN << <<"cleanup", m>> >> ELSE <<>>

\* C16: loadAnimation(m) on a live engine stops playback, then invokes cleanup
\* of the previous module once if it has one, makes m active and invokes
\* m.init once; afterwards the engine is not playing and no frame callback is
\* pending, and update and render only ever go to the active module.
C16_LoadAnimationOrder ==
    [][/\ engineOp'.op = "loadAnimation" /\ ~history.destroyed =>
            /\ Invoked = CleanupCall(engine.animation) \o << <<"init", engineOp'.a>> >>
            /\ CalledWhileStopped
            /\ engine'.animation = engineOp'.a
            /\ ~engine'.isPlaying /\ frames' = {} /\ ~threw'
       /\ \A i \in 1..Len(moduleCalls') :
            moduleCalls'[i].fn \in {"update", "render"} =>
                moduleCalls'[i].module = engine.animation]_vars

\* a module with cleanup that had run frames is replaced by another module
C16_Witness ==
    /\ engineOp.op = "loadAnimation" /\ engineOp.a = "anim2"
    /\ Len(moduleCalls) = 2 /\ moduleCalls[1].fn = "cleanup"
    /\ moduleCalls[1].module = "anim1" /\ moduleCalls[2].module = "anim2"
    /\ history.lastAccepted # 0 /\ ~history.destroyed

\* C17: destroy() stops the loop, invokes the active module's cleanup once if
\* defined, disconnects the resize observer and drops the module and the
\* drawing context; once destroy() has returned no step invokes a module
\* callback.
C17_Destroy ==
    [][/\ engineOp'.op = "destroy" /\ ~history.destroyed =>
            /\ Invoked = CleanupCall(engine.animation)
            /\ CalledWhileStopped
            /\ ~engine'.isPlaying /\ frames' = {} /\ ~threw'
            /\ ~engine'.observing /\ ~engine'.ctx
            /\ engine'.animation = NoAnimation
       /\ history.destroyed => moduleCalls' = <<>>]_vars

\* destroy() of an engine that had run frames of a module with cleanup
C17_Witness ==
    /\ engineOp.op = "destroy" /\ history.destroyed
    /\ Len(moduleCalls) = 1 /\ moduleCalls[1].fn = "cleanup"
    /\ history.lastAccepted # 0

\* C18: no engine operation throws in any reachable state, the states after
\* destroy() included (module callbacks do not throw here).
C18_OperationsTotal ==
    engineOp.op \in {"loadAnimation", "play", "pause", "stop", "restart",
                     "setSpeed", "setParameters", "destroy"} => ~threw

\* C19: a resize on a live engine with an active module invokes that module's
\* init once with the new width and no cleanup, playing or paused; play state
\* and pending frame callback stay; with no module nothing is invoked.
C19_ResizeReinit ==
    [][engineOp'.op = "resize" =>
         /\ Invoked = IF engine.animation # NoAnimation
                      THEN << <<"init", engine.animation>> >> ELSE <<>>
         /\ \A i \in 1..Len(moduleCalls') :
              /\ moduleCalls'[i].context.width = engineOp'.n
              /\ moduleCalls'[i].context.isPlaying = engine.isPlaying
         /\ engine' = [engine EXCEPT !.width = engineOp'.n]
         /\ frames' = frames /\ ~threw']_vars

\* a playing engine with a module that has cleanup is resized to 400
C19_Witness ==
    /\ engineOp.op = "resize" /\ engineOp.n = 400
    /\ engine.isPlaying /\ frames # {} /\ engine.animation = "anim1"
    /\ Len(moduleCalls) = 1 /\ moduleCalls[1].fn = "init"
    /\ moduleCalls[1].context.width = 400

\* max(0.25, min(2.0, s)) over the numbers, in hundredths
Clamped(s) == IF s < 25 THEN 25 ELSE IF s > 200 THEN 200 ELSE s

\* C20: setSpeed(s) stores max(0.25, min(2.0, s)) and nothing else, so
\* getSpeed() is always within [0.25, 2.0]; a tick passes time and deltaTime
\* multiplied by the speed, and what a tick does to the engine and the frame
\* callback is the same under every speed.
C20_SpeedClamp ==
    [][/\ engineOp'.op = "setSpeed" =>
            /\ engine' = [engine EXCEPT !.speed = Clamped(engineOp'.n)]
            /\ frames' = frames /\ moduleCalls' = <<>> /\ ~threw'
       /\ getSpeed' # NaN /\ getSpeed' >= 25 /\ getSpeed' <= 200
       /\ FrameTick =>
            /\ \A i \in 1..Len(moduleCalls') :
                 /\ moduleCalls'[i].context.deltaTime = Times(engine'.deltaTime, engine.speed)
                 /\ moduleCalls'[i].context.time = Times(now - engine.startTime, engine.speed)
            /\ \A s \in {25, 100, 200} :
                 LET alt == animationLoop([Running EXCEPT !.e.speed = s, !.frames = {}],
                                          now, "none") IN
                 /\ [alt.e EXCEPT !.speed = engine.speed] = engine'
                 /\ alt.frames = frames' /\ alt.threw = threw'
                 /\ Len(alt.calls) = Len(moduleCalls')]_vars


\* ---- engine, with modules that throw
\* The step is a frame in which the module's fn was called and threw.
ThrewIn(fn) ==
    /\ FrameTick /\ threw' /\ moduleCalls' # <<>>
    /\ moduleCalls'[Len(moduleCalls')].fn = fn

\* The step called the module's fn.
Called(fn) == \E i \in 1..Len(moduleCalls') : moduleCalls'[i].fn = fn

C29_StalledUntilReset ==
    [][/\ (ThrewIn("update") \/ ThrewIn("render")) =>
              isAnimationPlaying' /\ frames' = {}
       /\ (/\ history.stalled = "stalled" /\ isAnimationPlaying /\ frames = {}
           /\ engineOp'.op = "play") =>
              /\ isAnimationPlaying' /\ frames' = {}
              /\ engine' = engine
       /\ (FrameTick /\ Called("update")) => history.stalled = "no"]_vars

C29_Witness ==
    /\ history.stalled = "stalled"
    /\ engineOp.op = "play" /\ ~threw
    /\ isAnimationPlaying /\ frames = {}


\* ---- registry, with the history kept
\* The step is a clearCache() (one that changes the history).
ClearsCache ==
    /\ \E id \in Ids : marks[id] # "cleared"
    /\ \A id \in Ids : marks'[id] = "cleared"

\* C21: clearCache() empties the load cache and the in-flight markers and
\* leaves the entries untouched; the next getById(id) for a registered id
\* invokes its loader again.
C21_ClearCache ==
    [][/\ ClearsCache =>
            /\ getCacheSize' = 0
            /\ \A id \in Ids : ~isCached(id)' /\ loadingPromises'[id] = 0
            /\ entries' = entries /\ count' = count
       /\ \A id \in Ids :
            (marks[id] = "cleared" /\ has(id) /\ CallsGetById(id)) =>
                /\ Len(loads') = Len(loads) + 1
                /\ loads'[Len(loads')].id = id
                /\ loads'[Len(loads')].loader = entries[id].loader]_vars


\* getMetadataById(id)
getMetadataById(id) == entries[id].metadata

\* The step is a register(in.metadata, in.loader) for an id already registered.
ReRegisters(id, in) ==
    /\ has(id)
    /\ entries' = [entries EXCEPT ![id] = in]
    /\ UNCHANGED <<loads, calls>>
    /\ entries' # entries \/ (marks'[id] \in Modules /\ marks'[id] # marks[id])

\* C25: re-registering an id replaces its metadata and loader and nothing
\* else: count(), the load cache and the in-flight markers are unchanged, the
\* next loader invocation for the id calls the new loader, a load in flight is
\* still what getById(id) hands out, and the module that was cached when the
\* id was re-registered is what getById(id) returns until clearCache.
C25_ReRegistration ==
    [][/\ \A id \in Ids, in \in RegisterInputs :
            ReRegisters(id, in) =>
                /\ getMetadataById(id)' = in.metadata
                /\ count' = count
                /\ loadedCache' = loadedCache
                /\ loadingPromises' = loadingPromises
       /\ \A id \in Ids :
            CallsGetById(id) =>
                /\ Len(loads') > Len(loads) =>
                       loads'[Len(loads')].loader = entries[id].loader
                /\ (has(id) /\ ~isCached(id) /\ loadingPromises[id] # 0) =>
                       /\ loads' = loads
                       /\ calls'[Len(calls')].promise = loadingPromises[id]
                /\ marks[id] \in Modules =>
                       /\ loads' = loads
                       /\ calls'[Len(calls')].value = marks[id]]_vars


\* Load p was in flight when clearCache() ran: it has not settled and it is
\* no longer its id's in-flight marker (only clearCache removes the marker of
\* an unsettled load).
LeftInFlight(p) ==
    /\ loads[p].state = Pending
    /\ loadingPromises[loads[p].id] # p

\* C28: when a load that was in flight at a clearCache() settles, the load
\* cache and the in-flight markers stay as they are.
C28_StaleLoadInert ==
    [][\A p \in 1..Len(loads) :
           (LeftInFlight(p) /\ loads'[p].state # Pending) =>
               /\ loadedCache' = loadedCache
               /\ loadingPromises' = loadingPromises]_vars


\* ---- hover manager, termination
\* C30: setMaxConcurrent(n) returns, for every n and every set of active
\* registrations, with the active count at most the cap.
C30_SetMaxConcurrentTerminates ==
    lastOp.op = "setMaxConcurrent" =>
        /\ ~hung
        /\ getActiveCount <= maxConcurrent


\* ---- gallery cards
\* The playing engines the cards have started.
RECURSIVE PlayingEngines(_)
PlayingEngines(ids) ==
    IF ids = {} THEN 0
    ELSE LET id == CHOOSE x \in ids : TRUE
         IN  cards[id].playing + PlayingEngines(ids \ {id})

\* C26: a card has a playing engine only while its id is active in the hover
\* manager, and the playing engines the cards have started never outnumber
\* the manager's cap.
C26_EnginesWithinBound ==
    /\ \A id \in DOMAIN cards : cards[id].playing > 0 => isActive(id)
    /\ PlayingEngines(DOMAIN cards) <= maxConcurrent


\* ---- canvas pool
\* C22: no canvas is held by two acquirers that have not released it.
C22_ExclusiveOwnership ==
    \A c \in 1..MaxCanvases : outstanding[c] <= 1

\* C23: the idle pool holds at most 10 canvases; release into a pool of 10
\* drops the canvas and leaves the pool; every canvas that enters the pool is
\* cleared by that release; acquire hands out the newest pooled canvas and
\* shrinks the pool by one, or creates a canvas when the pool is empty.
C23_RetentionBound ==
    [][/\ Len(pool') <= 10
       /\ poolOp'.op = "release" =>
            IF Len(pool) >= 10 THEN pool' = pool
            ELSE pool' = Append(pool, poolOp'.canvas) /\ poolOp'.did = "cleared"
       /\ poolOp'.op = "acquire" =>
            IF pool # <<>>
            THEN /\ poolOp'.canvas = pool[Len(pool)]
                 /\ pool' = SubSeq(pool, 1, Len(pool) - 1)
                 /\ created' = created
            ELSE /\ poolOp'.canvas \notin Canvases
                 /\ created' = created + 1 /\ pool' = pool]_vars


\* ---- registry sort
\* easy < medium < hard
Ordinal(d) == IF d = "easy" THEN 1 ELSE IF d = "medium" THEN 2 ELSE 3

\* Where the entry at position i of the result stood in the caller's list.
InputIndex(i) == CHOOSE k \in 1..Len(animations) : animations[k] = sorted[i]

\* C24: sort by difficulty returns a new list, a permutation of the input
\* that is left as it was, ordered by easy < medium < hard for 'asc' and by
\* the reverse for 'desc', entries of equal difficulty in their input order.
C24_SortDifficulty ==
    [][sortOptions'.by = "difficulty" =>
         /\ animations' = animations
         /\ Len(sorted') = Len(animations)
         /\ \A k \in 1..Len(animations) :
              \E i \in 1..Len(sorted') : sorted'[i] = animations[k]
         /\ \A i, j \in 1..Len(sorted') :
              i < j =>
                LET a == Ordinal(sorted'[i].difficulty)
                    b == Ordinal(sorted'[j].difficulty) IN
                /\ sortOptions'.order = "asc" => a <= b
                /\ sortOptions'.order = "desc" => a >= b
                /\ a = b => InputIndex(i)' < InputIndex(j)']_vars

\* [hard, easy, medium] sorted ascending by difficulty
C24_Witness ==
    /\ sortOptions = [by |-> "difficulty", order |-> "asc"]
    /\ Len(animations) = 3
    /\ animations[1].difficulty = "hard" /\ animations[2].difficulty = "easy"
    /\ animations[3].difficulty = "medium"
    /\ sorted = <<animations[2], animations[3], animations[1]>>

====
